---- MODULE Spec2Model ----
(***************************************************************************)
(* The asynchronous DAG net scheduler of caffe2: DAGNetBase (net_dag.cc),  *)
(* its synchronous variant DAGNet and its device-aware variant AsyncDAGNet *)
(* (net_async_dag_gpu.cc).  Callers invoke Run() on one net instance, a    *)
(* pool of worker threads pops chain ids from the job queue.               *)
(***************************************************************************)
EXTENDS Integers, Sequences, FiniteSets, TLC

\* ------------------------------------------------------------------ bounds
MaxWorkers == 2     \* largest num_workers of a net definition
MaxRuns == 2        \* Run() calls made on the net in one behaviour
MaxFailing == 1     \* operators of the net that return false
MaxNodes == 4       \* operators of a net definition given to the constructor

\* Threads that call Run() on the net.
Callers == {1, 2}
NoCaller == 0
Workers == 1..MaxWorkers

\* ------------------------------------------------------- net definitions
\* An operator record of a NetDef: input and output blob names.
OpDef(i, o) == [input |-> i, output |-> o]

\* A -> C, B -> C, C -> D
DiamondNet ==
  << OpDef({}, {"a"}), OpDef({}, {"b"}), OpDef({"a", "b"}, {"c"}),
     OpDef({"c"}, {"d"}) >>

\* A -> B -> C
LinearNet == << OpDef({}, {"a"}), OpDef({"a"}, {"b"}), OpDef({"b"}, {"c"}) >>

NetDefs == {DiamondNet, LinearNet}

NodesOf(nd) == 1..Len(nd)

\* A builder that links a consumer to every earlier producer of a blob it
\* consumes, overwritten or not.
ParentsOfAnyEarlier(nd, c) ==
  { p \in 1..(c - 1) : \E b \in nd[c].input : b \in nd[p].output }

\* dag_utils::prepareOperatorNodes: the parents of node c are the most recent
\* earlier producers of the blobs c consumes.
ParentsOf(nd, c) ==
  { p \in 1..(c - 1) :
      \E b \in nd[c].input :
        /\ b \in nd[p].output
        /\ \A q \in (p + 1)..(c - 1) : b \notin nd[q].output }

ChildrenOf(nd, p) == { c \in NodesOf(nd) : p \in ParentsOf(nd, c) }

\* The members of a set of node indices in increasing order.
RECURSIVE SortedSeq(_)
SortedSeq(S) ==
  IF S = {} THEN << >>
  ELSE LET m == CHOOSE x \in S : \A y \in S : x <= y
       IN << m >> \o SortedSeq(S \ {m})

\* dag_utils::prepareOperatorNodes: the operator nodes of a net definition
\* with their parent and child edges.
prepareOperatorNodes(nd) ==
  [n \in NodesOf(nd) |->
     [parents_ |-> ParentsOf(nd, n), children_ |-> ChildrenOf(nd, n)]]

\* dag_utils::singleChains: every node is its own chain.
singleChains(nodes) == [n \in DOMAIN nodes |-> << n >>]

\* Mutant: a chain grows into a child whatever the child's other parents.
RECURSIVE GrowChainAnyParents(_, _, _)
GrowChainAnyParents(nodes, chain, assigned) ==
  LET last == chain[Len(chain)]
      ch == nodes[last].children_
  IN IF Cardinality(ch) = 1
     THEN LET c == CHOOSE x \in ch : TRUE
          IN IF c \notin assigned
             THEN GrowChainAnyParents(nodes, Append(chain, c),
                                      assigned \cup {c})
             ELSE chain
     ELSE chain

\* Grow a chain forward while its last node has exactly one child, that child
\* has exactly one parent and is not assigned yet.
RECURSIVE GrowChain(_, _, _)
GrowChain(nodes, chain, assigned) ==
  LET last == chain[Len(chain)]
      ch == nodes[last].children_
  IN IF Cardinality(ch) = 1
     THEN LET c == CHOOSE x \in ch : TRUE
          IN IF Cardinality(nodes[c].parents_) = 1 /\ c \notin assigned
             THEN GrowChain(nodes, Append(chain, c), assigned \cup {c})
             ELSE chain
     ELSE chain

SeqRange(s) == { s[i] : i \in 1..Len(s) }

\* Mutant: a node that is already a member of a chain still starts one.
RECURSIVE ComputeFromEveryNode(_, _, _, _)
ComputeFromEveryNode(nodes, i, assigned, acc) ==
  IF i \notin DOMAIN nodes THEN acc
  ELSE LET chain == GrowChain(nodes, << i >>, {i})
       IN ComputeFromEveryNode(nodes, i + 1, assigned \cup SeqRange(chain),
                               [acc EXCEPT ![i] = chain])

\* dag_utils::computeChains: the map from chain start to member list; a node
\* that starts no chain maps to the empty list (it is no key of the map).
RECURSIVE ComputeFrom(_, _, _, _)
ComputeFrom(nodes, i, assigned, acc) ==
  IF i \notin DOMAIN nodes THEN acc
  ELSE IF i \in assigned THEN ComputeFrom(nodes, i + 1, assigned, acc)
  ELSE LET chain == GrowChain(nodes, << i >>, assigned \cup {i})
       IN ComputeFrom(nodes, i + 1, assigned \cup SeqRange(chain),
                      [acc EXCEPT ![i] = chain])

computeChains(nodes) ==
  ComputeFrom(nodes, 1, {}, [n \in DOMAIN nodes |-> << >>])

\* Mutant: the flag is ignored, every node is its own chain.
ExecutionChainsAlwaysSingle(nodes, disable_chaining) == singleChains(nodes)

\* Mutant: the flag is ignored, the chains are always computed.
ExecutionChainsAlwaysComputed(nodes, disable_chaining) == computeChains(nodes)

\* DAGNetBase::DAGNetBase: the chains are single chains when
\* FLAGS_caffe2_disable_chaining is set, computed chains otherwise.
ExecutionChains(nodes, disable_chaining) ==
  IF disable_chaining THEN singleChains(nodes) ELSE computeChains(nodes)

\* ------------------------------------------------------------------ state
VARIABLES
  \* run-invariant state built by the constructor
  net,                  \* the NetDef the net was constructed from
  chaining,             \* !FLAGS_caffe2_disable_chaining
  async,                \* TRUE: AsyncDAGNet, FALSE: DAGNet
  opResult,             \* what each operator's Run()/RunAsync() returns
  parents_,             \* OperatorNode::parents_
  children_,            \* OperatorNode::children_
  is_chain_start_,      \* OperatorNode::is_chain_start_
  execution_chains_,    \* chain start -> member list (<< >>: not a key)
  initial_frontier_,    \* the nodes without parents, in index order
  num_workers_,
  num_workers_def,      \* the num_workers field of the net definition
  constructed,          \* "no", "yes", or "throw": the constructor threw
  destroyed,            \* "no", "joining" or "done": position of ~DAGNetBase
  \* Observable<NetBase>
  observers_list_,      \* the attached observers, by pointer
  obs_call,             \* the last call of the Observable interface
  notified,             \* the observers the last Start/StopAllObservers called
  attach_time,          \* observer -> when it was attached, 0: not attached
  obs_clock,            \* AttachObserver calls that added an observer
  \* run-scoped state
  runtime_parent_count_,
  remaining_ops_,
  success_,
  eventRecorded_,
  job_queue_,           \* NoQueue or [items, no_more_jobs]
  workers_,             \* the worker threads in the list workers_
  run_in_progress_,     \* owner of the mutex run_in_progress_
  remaining_ops_mutex_, \* worker that holds remaining_ops_mutex_, 0: free
  \* threads
  \* callers: position in Run(), index into initial_frontier_, and the local
  \* result of AsyncDAGNet::Run
  caller_pc, seed_pos, result,
  \* workers: position in WorkerFunction and its locals (book_children: the
  \* children the book-keeping loop has yet to visit)
  worker_pc, idx, chain_pos, this_success, book_children, chains_to_queue,
  waited,               \* per worker: the parents RunAt has called Wait on
  calls,                \* Run() calls made so far
  obsStart, obsStop,    \* StartAllObservers / StopAllObservers invocations
  fatal,                \* "" or the enforce that terminated the process
  \* history of the current run (reset with the run-scoped counters)
  executed,             \* node -> times its run entry point was invoked
  pushed,               \* node -> times its id was pushed to the queue
  chainResult,          \* chain start -> "none" | "ok" | "fail"
  finished,             \* caller -> chain tails it called Finish() on
  returned,             \* how DoRunAsync of the current run ended, or "none"
  prev_returned,        \* how the run before the current one ended, or "none"
  overlapped,           \* a Run() call was made during another since the net was idle
  run_result            \* caller -> what its last Run() returned, or "none"

cvars == << caller_pc, seed_pos, result >>
wvars == << worker_pc, idx, chain_pos, this_success, book_children,
           chains_to_queue, waited >>
ovars == << observers_list_, obs_call, notified, attach_time, obs_clock >>
gvars == << ovars, net, chaining, async, opResult, parents_, children_,
            is_chain_start_, execution_chains_, initial_frontier_,
            num_workers_, num_workers_def, constructed, destroyed >>
hvars == << executed, pushed, chainResult, finished, returned, prev_returned,
           overlapped, run_result >>
vars == << gvars, runtime_parent_count_, remaining_ops_, success_,
           eventRecorded_, job_queue_, workers_, run_in_progress_,
           remaining_ops_mutex_, cvars, wvars, calls, obsStart, obsStop,
           fatal, hvars >>

Nodes == 1..Len(net)

\* The observers a client may attach, by pointer, and the null pointer.
MaxObservers == 3
Observers == 1..MaxObservers
NullObserver == 0

\* No call of the Observable interface was made; the list is empty.
NoCall == [op |-> "none", arg |-> NullObserver, ret |-> NullObserver,
           threw |-> FALSE]
NoObserverYet ==
  /\ observers_list_ = << >>
  /\ obs_call = NoCall
  /\ notified = << >>
  /\ attach_time = [p \in Observers |-> 0]
  /\ obs_clock = 0
NoQueue == [items |-> << >>, no_more_jobs |-> FALSE, present |-> FALSE]
NewQueue == [items |-> << >>, no_more_jobs |-> FALSE, present |-> TRUE]

\* The chain start of the chain node n is a member of.
ChainOf(n) ==
  CHOOSE s \in Nodes : \E i \in 1..Len(execution_chains_[s]) :
                          execution_chains_[s][i] = n
ChainStarts == { s \in Nodes : execution_chains_[s] # << >> }
ChainTail(s) == execution_chains_[s][Len(execution_chains_[s])]

\* Mutant: the frontier holds every chain start instead of every root.
InitialFrontierChainStarts(nodes) ==
  SortedSeq({ n \in DOMAIN nodes :
                ExecutionChains(nodes, ~chaining)[n] # << >> })

\* DAGNetBase::DAGNetBase, the initial frontier: the nodes without parents,
\* in index order.
InitialFrontier(nodes) ==
  SortedSeq({ n \in DOMAIN nodes : nodes[n].parents_ = {} })

\* The num_workers field of a net definition: absent, or set to k.
NoNumWorkers == [has_num_workers |-> FALSE, num_workers |-> 0]
NumWorkers(k) == [has_num_workers |-> TRUE, num_workers |-> k]

\* DAGNetBase::DAGNetBase,
\* num_workers = net_def->has_num_workers() ? net_def->num_workers() : 1.
NumWorkersOf(def) == IF def.has_num_workers THEN def.num_workers ELSE 1

\* Mutant: a worker count of zero is accepted.
NotNegativeWorkers(num_workers) == num_workers >= 0

\* DAGNetBase::DAGNetBase, CAFFE_ENFORCE(num_workers > 0, ...).
PositiveWorkers(num_workers) == num_workers > 0

\* The state in which no Run() was called yet: the run-scoped state, the
\* threads and the history.
NoRunYet ==
  /\ destroyed = "no"
  /\ NoObserverYet
  /\ runtime_parent_count_ = [n \in NodesOf(net) |-> 0]
  /\ remaining_ops_ = 0
  /\ success_ = TRUE
  /\ eventRecorded_ = [n \in NodesOf(net) |-> FALSE]
  /\ job_queue_ = NoQueue
  /\ workers_ = {}
  /\ run_in_progress_ = NoCaller
  /\ remaining_ops_mutex_ = 0
  /\ caller_pc = [c \in Callers |-> "idle"]
  /\ seed_pos = [c \in Callers |-> 1]
  /\ result = [c \in Callers |-> "none"]
  /\ worker_pc = [w \in Workers |-> "none"]
  /\ idx = [w \in Workers |-> 0]
  /\ chain_pos = [w \in Workers |-> 0]
  /\ this_success = [w \in Workers |-> TRUE]
  /\ book_children = [w \in Workers |-> << >>]
  /\ chains_to_queue = [w \in Workers |-> << >>]
  /\ waited = [w \in Workers |-> {}]
  /\ calls = 0
  /\ obsStart = 0
  /\ obsStop = 0
  /\ fatal = ""
  /\ executed = [n \in NodesOf(net) |-> 0]
  /\ pushed = [n \in NodesOf(net) |-> 0]
  /\ chainResult = [n \in NodesOf(net) |-> "none"]
  /\ finished = [c \in Callers |-> {}]
  /\ returned = "none"
  /\ prev_returned = "none"
  /\ overlapped = FALSE
  /\ run_result = [c \in Callers |-> "none"]

\* The fields DAGNetBase::DAGNetBase computes from the operator nodes.
ParentsField(nodes) == [n \in DOMAIN nodes |-> nodes[n].parents_]
ChildrenField(nodes) == [n \in DOMAIN nodes |-> nodes[n].children_]
ChainStartField(nodes, chains) == [n \in DOMAIN nodes |-> chains[n] # << >>]

\* DAGNetBase::DAGNetBase (and AsyncDAGNet::AsyncDAGNet): the state after the
\* construction from one of the net definitions in the domain of
\* OperatorNodesOf, which maps a definition to its operator nodes; no queue
\* and no worker exist yet.
InitWith(OperatorNodesOf) ==
  /\ net \in DOMAIN OperatorNodesOf
  /\ chaining \in BOOLEAN
  /\ async \in BOOLEAN
  /\ opResult \in { f \in [NodesOf(net) -> BOOLEAN] :
                      Cardinality({ n \in NodesOf(net) : ~f[n] }) <= MaxFailing }
  /\ parents_ = ParentsField(OperatorNodesOf[net])
  /\ children_ = ChildrenField(OperatorNodesOf[net])
  /\ execution_chains_ = ExecutionChains(OperatorNodesOf[net], ~chaining)
  /\ is_chain_start_ = ChainStartField(OperatorNodesOf[net], execution_chains_)
  /\ initial_frontier_ = InitialFrontier(OperatorNodesOf[net])
  /\ num_workers_def \in { NumWorkers(k) : k \in 1..MaxWorkers }
  /\ num_workers_ = NumWorkersOf(num_workers_def)
  /\ constructed = "yes"
  /\ NoRunYet

Init == InitWith([nd \in NetDefs |-> prepareOperatorNodes(nd)])

\* ------------------------------------------------------------ job queue
\* SimpleQueue::Push on an open queue.
Push(q, v) == [q EXCEPT !.items = Append(@, v)]
\* SimpleQueue::NoMoreJobs.
NoMoreJobs(q) == [q EXCEPT !.no_more_jobs = TRUE]
\* SimpleQueue::Pop returns a value while the queue holds one, also after it
\* was closed; it blocks on an open empty queue and fails on a closed empty
\* one.
PopReady(q) == q.present /\ q.items # << >>
PopFails(q) == q.present /\ q.items = << >> /\ q.no_more_jobs
\* Push enforces that the queue is open.
PushAllowed(q) == q.present /\ ~q.no_more_jobs

\* --------------------------------------------------------------- callers
\* The threads that are not inside Run() are interchangeable (they hold no
\* local state): the next call is made by the one with the smallest id.
FirstIdleCaller(c) == \A d \in Callers : caller_pc[d] = "idle" => c <= d

\* AsyncDAGNet::Run, first statement (DAGNet: entry of NetBase::Run).
Run(c) ==
  /\ caller_pc[c] = "idle"
  /\ FirstIdleCaller(c)
  /\ calls < MaxRuns
  /\ calls' = calls + 1
  /\ eventRecorded_' =
       IF async THEN [n \in Nodes |-> FALSE] ELSE eventRecorded_
  /\ caller_pc' = [caller_pc EXCEPT ![c] = "observers"]
  /\ finished' = [finished EXCEPT ![c] = {}]
  /\ overlapped' = \E d \in Callers \ {c} : caller_pc[d] # "idle"
  /\ run_result' = [run_result EXCEPT ![c] = "none"]
  /\ UNCHANGED << gvars, runtime_parent_count_, remaining_ops_, success_,
                  job_queue_, workers_, run_in_progress_,
                  remaining_ops_mutex_, seed_pos, result, wvars, obsStart, obsStop,
                  fatal, executed, pushed, chainResult, returned, prev_returned >>

\* DoRunAsync, StartAllObservers() before the run lock is taken.
StartAllObservers(c) ==
  /\ caller_pc[c] = "observers"
  /\ obsStart' = obsStart + 1
  /\ caller_pc' = [caller_pc EXCEPT ![c] = "lock"]
  /\ UNCHANGED << gvars, runtime_parent_count_, remaining_ops_, success_,
                  eventRecorded_, job_queue_, workers_, run_in_progress_,
                  remaining_ops_mutex_, seed_pos, result, wvars, calls, obsStop,
                  fatal, hvars >>

\* Mutant: the run lock is taken without waiting for its owner.
LockRunNoWait(c) ==
  /\ caller_pc[c] = "lock"
  /\ run_in_progress_' = c
  /\ caller_pc' = [caller_pc EXCEPT ![c] = "setup"]
  /\ UNCHANGED << gvars, runtime_parent_count_, remaining_ops_, success_,
                  eventRecorded_, job_queue_, workers_,
                  remaining_ops_mutex_, seed_pos, result, wvars, calls, obsStart,
                  obsStop, fatal, hvars >>

\* DoRunAsync, std::unique_lock<std::mutex> run_lock(run_in_progress_).
LockRun(c) ==
  /\ caller_pc[c] = "lock"
  /\ run_in_progress_ = NoCaller
  /\ run_in_progress_' = c
  /\ caller_pc' = [caller_pc EXCEPT ![c] = "setup"]
  /\ UNCHANGED << gvars, runtime_parent_count_, remaining_ops_, success_,
                  eventRecorded_, job_queue_, workers_,
                  remaining_ops_mutex_, seed_pos, result, wvars, calls, obsStart,
                  obsStop, fatal, hvars >>

\* A pool that starts every thread it can, whatever num_workers_ says.
WorkersToStartAll == Workers \ workers_

\* The worker ids of the threads DoRunAsync starts: num_workers_ minus the
\* size of the list workers_.
WorkersToStart ==
  LET free == SortedSeq(Workers \ workers_)
      k == num_workers_ - Cardinality(workers_)
  IN { free[i] : i \in 1..(IF k > Len(free) THEN Len(free) ELSE k) }

\* Mutant: the counts are not set to the number of parents.
InitialParentCountZero(n) == 0

\* Mutant: the count records only whether the node has a parent.
InitialParentCountOne(n) == IF parents_[n] = {} THEN 0 ELSE 1

\* DoRunAsync, node.runtime_parent_count_ = node.parents_.size().
InitialParentCount(n) == Cardinality(parents_[n])

\* What the operators return in the run that starts: what they returned in
\* the run before, or true throughout when the caller fixed the inputs after
\* a run that returned failure.
RunOutcomes ==
  IF returned = "failure"
  THEN {opResult, [n \in Nodes |-> TRUE]}
  ELSE {opResult}

\* DoRunAsync, reset of the run-scoped state, creation of the queue and of the
\* workers.
Setup(c) ==
  /\ caller_pc[c] = "setup"
  /\ opResult' \in RunOutcomes
  /\ remaining_ops_' = Len(net)
  /\ success_' = TRUE
  /\ job_queue_' = IF job_queue_.present THEN job_queue_ ELSE NewQueue
  /\ workers_' = workers_ \cup WorkersToStart
  /\ worker_pc' = [w \in Workers |->
                    IF w \in WorkersToStart THEN "pop" ELSE worker_pc[w]]
  /\ runtime_parent_count_' = [n \in Nodes |-> InitialParentCount(n)]
  /\ seed_pos' = [seed_pos EXCEPT ![c] = 1]
  /\ caller_pc' = [caller_pc EXCEPT ![c] =
               IF initial_frontier_ = << >> THEN "wait" ELSE "seed"]
  /\ executed' = [n \in Nodes |-> 0]
  /\ pushed' = [n \in Nodes |-> 0]
  /\ chainResult' = [n \in Nodes |-> "none"]
  /\ returned' = "none"
  /\ prev_returned' = returned
  /\ UNCHANGED << waited, overlapped, run_result, net, chaining, async, parents_, children_,
                  is_chain_start_, execution_chains_, initial_frontier_,
                  num_workers_, num_workers_def, constructed, destroyed,
                  ovars,
                  eventRecorded_, run_in_progress_,
                  remaining_ops_mutex_, result, idx, chain_pos, this_success,
                  book_children, chains_to_queue, calls, obsStart, obsStop,
                  fatal, finished >>

\* DoRunAsync, one iteration of the loop that pushes initial_frontier_.  Push
\* on a closed queue throws out of Run() (the run lock is released by the
\* unwinding).
Seed(c) ==
  /\ caller_pc[c] = "seed"
  /\ LET v == initial_frontier_[seed_pos[c]]
     IN IF PushAllowed(job_queue_)
        THEN /\ job_queue_' = Push(job_queue_, v)
             /\ pushed' = [pushed EXCEPT ![v] = IF @ < 2 THEN @ + 1 ELSE @]
             /\ seed_pos' = [seed_pos EXCEPT ![c] =
                            IF @ = Len(initial_frontier_) THEN 1 ELSE @ + 1]
             /\ caller_pc' = [caller_pc EXCEPT ![c] =
                          IF seed_pos[c] = Len(initial_frontier_)
                          THEN "wait" ELSE "seed"]
             /\ UNCHANGED << returned, run_in_progress_ >>
        ELSE /\ returned' = "throw_closed_queue"
             /\ run_in_progress_' = NoCaller
             /\ caller_pc' = [caller_pc EXCEPT ![c] = "idle"]
             /\ seed_pos' = [seed_pos EXCEPT ![c] = 1]
             /\ UNCHANGED << job_queue_, pushed >>
  /\ UNCHANGED << gvars, runtime_parent_count_, remaining_ops_, success_,
                  eventRecorded_, workers_, remaining_ops_mutex_, result,
                  wvars, calls, obsStart, obsStop, fatal, executed,
                  chainResult, finished, prev_returned, overlapped, run_result >>

\* A wait loop that is left one operator early.
WaitOverEarly == remaining_ops_ <= 1 \/ ~success_

\* DoRunAsync, the exit test of the wait loop.
WaitOver == remaining_ops_ = 0 \/ ~success_

\* DoRunAsync, the test of the wait loop under remaining_ops_mutex_: leave the
\* loop, or cv_.wait (which releases the mutex).
CheckWait(c) ==
  /\ caller_pc[c] = "wait"
  /\ remaining_ops_mutex_ = 0
  /\ caller_pc' = [caller_pc EXCEPT ![c] =
               IF WaitOver THEN "after_wait" ELSE "cv_wait"]
  /\ UNCHANGED << gvars, runtime_parent_count_, remaining_ops_, success_,
                  eventRecorded_, job_queue_, workers_, run_in_progress_,
                  remaining_ops_mutex_, seed_pos, result, wvars, calls, obsStart,
                  obsStop, fatal, hvars >>

\* Where a caller continues once DoRunAsync has returned normally.
AfterDoRunAsync == IF async THEN "finish" ELSE "idle"
\* AsyncDAGNet::Run keeps the result of the base run in a local until it has
\* finished the events.
ResultLocal(r) == IF async THEN r ELSE "none"
\* What Run() has handed to its caller once DoRunAsync has returned r: DAGNet
\* returns r at once, AsyncDAGNet only after it has finished the events.
ReturnedBy(c, r) == IF async THEN run_result ELSE [run_result EXCEPT ![c] = r]

\* Mutant: the failure branch returns without joining the workers.
JoinWorkersNoJoin(c) ==
  /\ caller_pc[c] = "after_wait"
  /\ ~success_
  /\ workers_' = {}
  /\ job_queue_' = NoQueue
  /\ result' = [result EXCEPT ![c] = ResultLocal("failure")]
  /\ returned' = "failure"
  /\ run_result' = ReturnedBy(c, "failure")
  /\ run_in_progress_' = NoCaller
  /\ caller_pc' = [caller_pc EXCEPT ![c] = AfterDoRunAsync]
  /\ UNCHANGED << gvars, runtime_parent_count_, remaining_ops_, success_,
                  eventRecorded_, remaining_ops_mutex_, seed_pos, wvars,
                  calls, obsStart, obsStop, fatal, executed, pushed,
                  chainResult, finished, prev_returned, overlapped >>

\* Mutant: the failure branch joins the workers but keeps them in workers_.
JoinWorkersNoClear(c) ==
  /\ caller_pc[c] = "after_wait"
  /\ ~success_
  /\ \A w \in workers_ : worker_pc[w] = "exited"
  /\ job_queue_' = NoQueue
  /\ result' = [result EXCEPT ![c] = ResultLocal("failure")]
  /\ returned' = "failure"
  /\ run_result' = ReturnedBy(c, "failure")
  /\ run_in_progress_' = NoCaller
  /\ caller_pc' = [caller_pc EXCEPT ![c] = AfterDoRunAsync]
  /\ UNCHANGED << gvars, runtime_parent_count_, remaining_ops_, success_,
                  eventRecorded_, workers_, remaining_ops_mutex_, seed_pos,
                  wvars, calls, obsStart, obsStop, fatal, executed, pushed,
                  chainResult, finished, prev_returned, overlapped >>

\* A failure branch that stops the observers before it returns.
JoinWorkersStopObservers(c) ==
  /\ caller_pc[c] = "after_wait"
  /\ ~success_
  /\ \A w \in workers_ : worker_pc[w] = "exited"
  /\ worker_pc' = [w \in Workers |-> IF w \in workers_ THEN "none" ELSE worker_pc[w]]
  /\ workers_' = {}
  /\ job_queue_' = NoQueue
  /\ result' = [result EXCEPT ![c] = ResultLocal("failure")]
  /\ returned' = "failure"
  /\ run_result' = ReturnedBy(c, "failure")
  /\ obsStop' = obsStop + 1
  /\ run_in_progress_' = NoCaller
  /\ caller_pc' = [caller_pc EXCEPT ![c] = AfterDoRunAsync]
  /\ UNCHANGED << waited, gvars, runtime_parent_count_, remaining_ops_, success_,
                  eventRecorded_, remaining_ops_mutex_, seed_pos, idx, chain_pos,
                  this_success, book_children, chains_to_queue, calls,
                  obsStart, fatal, executed, pushed, chainResult,
                  finished, prev_returned, overlapped >>

\* DoRunAsync, the failure branch: join the workers, clear the list, destroy
\* the queue, return success_.
JoinWorkers(c) ==
  /\ caller_pc[c] = "after_wait"
  /\ ~success_
  /\ \A w \in workers_ : worker_pc[w] = "exited"
  /\ worker_pc' = [w \in Workers |-> IF w \in workers_ THEN "none" ELSE worker_pc[w]]
  /\ workers_' = {}
  /\ job_queue_' = NoQueue
  /\ result' = [result EXCEPT ![c] = ResultLocal("failure")]
  /\ returned' = "failure"
  /\ run_result' = ReturnedBy(c, "failure")
  /\ run_in_progress_' = NoCaller
  /\ caller_pc' = [caller_pc EXCEPT ![c] = AfterDoRunAsync]
  /\ UNCHANGED << waited, gvars, runtime_parent_count_, remaining_ops_, success_,
                  eventRecorded_, remaining_ops_mutex_, seed_pos, idx, chain_pos,
                  this_success, book_children, chains_to_queue, calls,
                  obsStart, obsStop, fatal, executed, pushed, chainResult,
                  finished, prev_returned, overlapped >>

\* DoRunAsync, the success branch: enforce that no node has runtime parents
\* left, StopAllObservers(), return success_.
ReturnSuccess(c) ==
  /\ caller_pc[c] = "after_wait"
  /\ success_
  /\ run_in_progress_' = NoCaller
  /\ IF \E n \in Nodes : runtime_parent_count_[n] # 0
     THEN /\ returned' = "throw_parents_left"
          /\ caller_pc' = [caller_pc EXCEPT ![c] = "idle"]
          /\ UNCHANGED << result, obsStop, run_result >>
     ELSE /\ returned' = "success"
          /\ run_result' = ReturnedBy(c, "success")
          /\ result' = [result EXCEPT ![c] = ResultLocal("success")]
          /\ caller_pc' = [caller_pc EXCEPT ![c] = AfterDoRunAsync]
          /\ obsStop' = obsStop + 1
  /\ UNCHANGED << gvars, runtime_parent_count_, remaining_ops_, success_,
                  eventRecorded_, job_queue_, workers_,
                  remaining_ops_mutex_, seed_pos, wvars, calls, obsStart, fatal,
                  executed, pushed, chainResult, finished, prev_returned, overlapped >>

\* Only the events that were recorded in the run are finished.
TailsToFinishRecorded ==
  { ChainTail(s) : s \in { t \in ChainStarts : eventRecorded_[ChainTail(t)] } }

\* AsyncDAGNet::Run, the operators whose event is finished: the last of every
\* chain of execution_chains_.
TailsToFinish == { ChainTail(s) : s \in ChainStarts }

\* AsyncDAGNet::Run, Finish() on the event of every chain's last node, then
\* return the result of the base run.
FinishTails(c) ==
  /\ caller_pc[c] = "finish"
  /\ finished' = [finished EXCEPT ![c] = TailsToFinish]
  /\ caller_pc' = [caller_pc EXCEPT ![c] = "idle"]
  /\ result' = [result EXCEPT ![c] = "none"]
  /\ run_result' = [run_result EXCEPT ![c] = result[c]]
  /\ UNCHANGED << gvars, runtime_parent_count_, remaining_ops_, success_,
                  eventRecorded_, job_queue_, workers_, run_in_progress_,
                  remaining_ops_mutex_, seed_pos, wvars, calls, obsStart,
                  obsStop, fatal, executed, pushed, chainResult, returned, prev_returned, overlapped >>

\* --------------------------------------------------------------- workers
\* Mutant: only the children of the chain's last node are visited.
ChildSeqTailOnly(chain) == SortedSeq(children_[chain[Len(chain)]])

\* The children WorkerFunction's book-keeping visits for a chain, in order:
\* for every member of the chain, each of its children.
RECURSIVE ChildSeq(_)
ChildSeq(chain) ==
  IF chain = << >> THEN << >>
  ELSE SortedSeq(children_[Head(chain)]) \o ChildSeq(Tail(chain))

\* Where a worker continues when RunAt has returned: the book-keeping loop, or
\* the notification when the chain has no child to visit.
AfterRunAt(chain) == IF ChildSeq(chain) = << >> THEN "notify" ELSE "book"

\* The workers blocked in Pop are interchangeable (they hold no local state):
\* the value goes to the one with the smallest id.
FirstIdle(w) == \A v \in Workers : worker_pc[v] = "pop" => w <= v

\* WorkerFunction, job_queue_->Pop(&idx) and the lookup of the chain.
Pop(w) ==
  /\ worker_pc[w] = "pop"
  /\ \/ /\ PopReady(job_queue_)
        /\ FirstIdle(w)
        /\ LET popped == Head(job_queue_.items)
           IN /\ job_queue_' = [job_queue_ EXCEPT !.items = Tail(@)]
              /\ idx' = [idx EXCEPT ![w] = popped]
              /\ IF execution_chains_[popped] = << >>
                 THEN /\ fatal' = "Can't find chain"
                      /\ UNCHANGED << worker_pc, chain_pos, this_success >>
                 ELSE /\ worker_pc' = [worker_pc EXCEPT ![w] =
                                   IF async THEN "wait_parents" ELSE "run"]
                      /\ chain_pos' = [chain_pos EXCEPT ![w] = 1]
                      /\ this_success' = [this_success EXCEPT ![w] = TRUE]
                      /\ UNCHANGED fatal
     \/ /\ PopFails(job_queue_)
        /\ worker_pc' = [worker_pc EXCEPT ![w] = "exited"]
        /\ UNCHANGED << job_queue_, idx, chain_pos, this_success, fatal >>
  /\ UNCHANGED << gvars, waited, runtime_parent_count_, remaining_ops_, success_,
                  eventRecorded_, workers_, run_in_progress_,
                  remaining_ops_mutex_, cvars, book_children, chains_to_queue, calls,
                  obsStart, obsStop, hvars >>

\* A RunAt that runs every member of the chain and returns the conjunction of
\* their results.
RunAtOpNoReturn(w) ==
  /\ worker_pc[w] = "run"
  /\ ~async
  /\ LET chain == execution_chains_[idx[w]]
         n == chain[chain_pos[w]]
         returns == chain_pos[w] = Len(chain)
     IN /\ executed' = [executed EXCEPT ![n] = IF @ < 2 THEN @ + 1 ELSE @]
        /\ IF returns
           THEN /\ this_success' = [this_success EXCEPT ![w] = @ /\ opResult[n]]
                /\ chainResult' = [chainResult EXCEPT ![idx[w]] =
                                     IF this_success[w] /\ opResult[n]
                                     THEN "ok" ELSE "fail"]
                /\ book_children' = [book_children EXCEPT ![w] = ChildSeq(chain)]
                /\ chains_to_queue' = [chains_to_queue EXCEPT ![w] = << >>]
                /\ worker_pc' = [worker_pc EXCEPT ![w] = AfterRunAt(chain)]
                /\ UNCHANGED chain_pos
           ELSE /\ chain_pos' = [chain_pos EXCEPT ![w] = @ + 1]
                /\ this_success' = [this_success EXCEPT ![w] = @ /\ opResult[n]]
                /\ UNCHANGED << chainResult, book_children, chains_to_queue, worker_pc >>
  /\ UNCHANGED << gvars, waited, runtime_parent_count_, remaining_ops_, success_,
                  eventRecorded_, job_queue_, workers_, run_in_progress_,
                  remaining_ops_mutex_, cvars, idx, calls, obsStart,
                  obsStop, fatal, pushed, finished, returned, prev_returned, overlapped, run_result >>

\* DAGNet::RunAt, one iteration: Run() of the next member; return false at the
\* first member that fails, true after the last.
RunAtOp(w) ==
  /\ worker_pc[w] = "run"
  /\ ~async
  /\ LET chain == execution_chains_[idx[w]]
         n == chain[chain_pos[w]]
         returns == ~opResult[n] \/ chain_pos[w] = Len(chain)
     IN /\ executed' = [executed EXCEPT ![n] = IF @ < 2 THEN @ + 1 ELSE @]
        /\ IF returns
           THEN /\ this_success' = [this_success EXCEPT ![w] = opResult[n]]
                /\ chainResult' = [chainResult EXCEPT ![idx[w]] =
                                     IF opResult[n] THEN "ok" ELSE "fail"]
                /\ book_children' = [book_children EXCEPT ![w] = ChildSeq(chain)]
                /\ chains_to_queue' = [chains_to_queue EXCEPT ![w] = << >>]
                /\ worker_pc' = [worker_pc EXCEPT ![w] = AfterRunAt(chain)]
                /\ UNCHANGED chain_pos
           ELSE /\ chain_pos' = [chain_pos EXCEPT ![w] = @ + 1]
                /\ UNCHANGED << this_success, chainResult, book_children, chains_to_queue, worker_pc >>
  /\ UNCHANGED << gvars, waited, runtime_parent_count_, remaining_ops_, success_,
                  eventRecorded_, job_queue_, workers_, run_in_progress_,
                  remaining_ops_mutex_, cvars, idx, calls, obsStart,
                  obsStop, fatal, pushed, finished, returned, prev_returned, overlapped, run_result >>

\* A Wait loop that leaves after the first parent.
WaitedOnFirst(parents) ==
  IF parents = {} THEN {}
  ELSE { CHOOSE p \in parents : \A q \in parents : p <= q }

\* AsyncDAGNet::RunAt, the Wait loop: the parents the first node of the chain
\* waits on.
WaitedOn(parents) == parents

\* AsyncDAGNet::RunAt, entry: enforce that a parent of the chain's first node
\* recorded an event, then Wait on every parent.
AsyncRunAtWait(w) ==
  /\ worker_pc[w] = "wait_parents"
  /\ LET source_idx == Head(execution_chains_[idx[w]])
         parents == parents_[source_idx]
     IN IF parents = {} \/ \E p \in parents : eventRecorded_[p]
        THEN /\ waited' = [waited EXCEPT ![w] = WaitedOn(parents)]
             /\ worker_pc' = [worker_pc EXCEPT ![w] = "run"]
             /\ UNCHANGED fatal
        ELSE /\ fatal' = "None of the parent is recorded for an event."
             /\ UNCHANGED << worker_pc, waited >>
  /\ UNCHANGED << gvars, runtime_parent_count_, remaining_ops_, success_,
                  eventRecorded_, job_queue_, workers_, run_in_progress_,
                  remaining_ops_mutex_, cvars, idx, chain_pos, this_success, book_children,
                  chains_to_queue, calls, obsStart, obsStop, hvars >>

\* AsyncDAGNet::RunAt, one iteration: success &= RunAsync() of the next member.
AsyncRunAtOp(w) ==
  /\ worker_pc[w] = "run"
  /\ async
  /\ LET chain == execution_chains_[idx[w]]
         n == chain[chain_pos[w]]
     IN /\ executed' = [executed EXCEPT ![n] = IF @ < 2 THEN @ + 1 ELSE @]
        /\ this_success' = [this_success EXCEPT ![w] = @ /\ opResult[n]]
        /\ IF chain_pos[w] = Len(chain)
           THEN /\ worker_pc' = [worker_pc EXCEPT ![w] = "record"]
                /\ UNCHANGED chain_pos
           ELSE /\ chain_pos' = [chain_pos EXCEPT ![w] = @ + 1]
                /\ UNCHANGED worker_pc
  /\ UNCHANGED << gvars, waited, runtime_parent_count_, remaining_ops_, success_,
                  eventRecorded_, job_queue_, workers_, run_in_progress_,
                  remaining_ops_mutex_, cvars, idx, book_children, chains_to_queue, calls,
                  obsStart, obsStop, fatal, pushed, chainResult, finished,
                  returned, prev_returned, overlapped, run_result >>

\* A RunAt that records the sink only when every member succeeded.
AsyncRunAtRecordOnSuccess(w) ==
  /\ worker_pc[w] = "record"
  /\ LET chain == execution_chains_[idx[w]]
         sink_idx == chain[Len(chain)]
     IN IF eventRecorded_[sink_idx]
        THEN /\ fatal' = "An event should not be recorded."
             /\ UNCHANGED << eventRecorded_, chainResult, book_children, chains_to_queue, worker_pc, waited >>
        ELSE /\ eventRecorded_' =
                  [eventRecorded_ EXCEPT ![sink_idx] = this_success[w]]
             /\ waited' = [waited EXCEPT ![w] = {}]
             /\ chainResult' = [chainResult EXCEPT ![idx[w]] =
                                  IF this_success[w] THEN "ok" ELSE "fail"]
             /\ book_children' = [book_children EXCEPT ![w] = ChildSeq(chain)]
             /\ chains_to_queue' = [chains_to_queue EXCEPT ![w] = << >>]
             /\ worker_pc' = [worker_pc EXCEPT ![w] = AfterRunAt(chain)]
             /\ UNCHANGED fatal
  /\ UNCHANGED << gvars, runtime_parent_count_, remaining_ops_, success_,
                  job_queue_, workers_, run_in_progress_,
                  remaining_ops_mutex_, cvars, idx, chain_pos, this_success, calls,
                  obsStart, obsStop, executed, pushed, finished, returned, prev_returned, overlapped, run_result >>

\* AsyncDAGNet::RunAt, exit: Record() on the sink of the chain, enforce that
\* it was not recorded yet, mark it recorded, return success.
AsyncRunAtRecord(w) ==
  /\ worker_pc[w] = "record"
  /\ LET chain == execution_chains_[idx[w]]
         sink_idx == chain[Len(chain)]
     IN IF eventRecorded_[sink_idx]
        THEN /\ fatal' = "An event should not be recorded."
             /\ UNCHANGED << eventRecorded_, chainResult, book_children, chains_to_queue, worker_pc, waited >>
        ELSE /\ eventRecorded_' = [eventRecorded_ EXCEPT ![sink_idx] = TRUE]
             /\ waited' = [waited EXCEPT ![w] = {}]
             /\ chainResult' = [chainResult EXCEPT ![idx[w]] =
                                  IF this_success[w] THEN "ok" ELSE "fail"]
             /\ book_children' = [book_children EXCEPT ![w] = ChildSeq(chain)]
             /\ chains_to_queue' = [chains_to_queue EXCEPT ![w] = << >>]
             /\ worker_pc' = [worker_pc EXCEPT ![w] = AfterRunAt(chain)]
             /\ UNCHANGED fatal
  /\ UNCHANGED << gvars, runtime_parent_count_, remaining_ops_, success_,
                  job_queue_, workers_, run_in_progress_,
                  remaining_ops_mutex_, cvars, idx, chain_pos, this_success, calls,
                  obsStart, obsStop, executed, pushed, finished, returned, prev_returned, overlapped, run_result >>

\* Mutant: the test of the count is missing.
ReadyToQueueNoCount(child, count) == is_chain_start_[child]

\* WorkerFunction: a child is collected in chains_to_queue when its count
\* reached 0 and it starts a chain.
ReadyToQueue(child, count) == count = 0 /\ is_chain_start_[child]

\* WorkerFunction, one iteration of the book-keeping loop: decrement the
\* child's runtime parent count; enforce it is not negative; collect the
\* child when the count reached 0 and it starts a chain.
Decrement(w) ==
  /\ worker_pc[w] = "book"
  /\ LET child == Head(book_children[w])
         count == runtime_parent_count_[child] - 1
     IN /\ runtime_parent_count_' =
             [runtime_parent_count_ EXCEPT ![child] = count]
        /\ IF count < 0
           THEN /\ fatal' = "Found runtime parent count smaller than zero"
                /\ UNCHANGED << book_children, chains_to_queue, worker_pc >>
           ELSE /\ book_children' = [book_children EXCEPT ![w] = Tail(@)]
                /\ chains_to_queue' = [chains_to_queue EXCEPT ![w] =
                                IF ReadyToQueue(child, count)
                                THEN Append(@, child) ELSE @]
                /\ worker_pc' = [worker_pc EXCEPT ![w] =
                             IF Tail(book_children[w]) = << >> THEN "notify"
                             ELSE "book"]
                /\ UNCHANGED fatal
  /\ UNCHANGED << gvars, waited, remaining_ops_, success_, eventRecorded_,
                  job_queue_, workers_, run_in_progress_,
                  remaining_ops_mutex_, cvars, idx, chain_pos, this_success, calls,
                  obsStart, obsStop, hvars >>

\* cv_.notify_one(): the caller waiting on the condition variable, if any,
\* goes back to the test of its wait loop.
NotifyOne(pcs) ==
  IF \E c \in Callers : pcs[c] = "cv_wait"
  THEN LET c == CHOOSE x \in Callers : pcs[x] = "cv_wait"
       IN [pcs EXCEPT ![c] = "wait"]
  ELSE pcs

\* Mutant: success_ = this_success.
AssignSuccess(a, b) == b

\* WorkerFunction, success_ &= this_success.
AndSuccess(a, b) == a /\ b

\* A worker that counts a finished chain as one operator.
ChainSizeOne(chain) == 1

\* WorkerFunction, chain.size(): the operators a finished chain takes off
\* remaining_ops_.
ChainSize(chain) == Len(chain)

\* A worker that leaves the block under remaining_ops_mutex_ before it queues
\* the follow-up chains.
ReleaseBeforePush(w) == 0

\* WorkerFunction, the scope of mutex_lock: the worker keeps
\* remaining_ops_mutex_ while it queues the follow-up chains.
HoldForPush(w) == w

\* WorkerFunction, the block under remaining_ops_mutex_ up to the decision to
\* terminate: update remaining_ops_ and success_, notify the caller of Run,
\* and on failure close the queue and return.
Notify(w) ==
  /\ worker_pc[w] = "notify"
  /\ remaining_ops_mutex_ = 0
  /\ LET chain == execution_chains_[idx[w]]
         rem == remaining_ops_ - ChainSize(chain)
         succ == AndSuccess(success_, this_success[w])
     IN /\ remaining_ops_' = rem
        /\ IF rem < 0
           THEN /\ fatal' = "remaining_ops_ >= 0"
                /\ UNCHANGED << success_, caller_pc, job_queue_, worker_pc,
                                remaining_ops_mutex_ >>
           ELSE /\ success_' = succ
                /\ caller_pc' = IF rem = 0 \/ ~succ THEN NotifyOne(caller_pc) ELSE caller_pc
                /\ IF ~succ
                   THEN /\ job_queue_' = NoMoreJobs(job_queue_)
                        /\ worker_pc' = [worker_pc EXCEPT ![w] = "exited"]
                        /\ UNCHANGED remaining_ops_mutex_
                   ELSE /\ UNCHANGED job_queue_
                        /\ IF chains_to_queue[w] = << >>
                           THEN /\ worker_pc' = [worker_pc EXCEPT ![w] = "pop"]
                                /\ UNCHANGED remaining_ops_mutex_
                           ELSE /\ worker_pc' = [worker_pc EXCEPT ![w] = "push"]
                                /\ remaining_ops_mutex_' = HoldForPush(w)
                /\ UNCHANGED fatal
  \* idx, this_success and chains_to_queue are locals of the loop body
  /\ IF fatal' = ""
     THEN /\ idx' = [idx EXCEPT ![w] = 0]
          /\ chain_pos' = [chain_pos EXCEPT ![w] = 0]
          /\ this_success' = [this_success EXCEPT ![w] = TRUE]
          /\ chains_to_queue' = [chains_to_queue EXCEPT ![w] =
                          IF worker_pc'[w] = "exited" THEN << >> ELSE @]
     ELSE UNCHANGED << idx, chain_pos, this_success, chains_to_queue >>
  /\ UNCHANGED << gvars, waited, runtime_parent_count_, eventRecorded_, workers_,
                  run_in_progress_, seed_pos, result, book_children, calls, obsStart,
                  obsStop, hvars >>

\* WorkerFunction, one iteration of the loop that queues the follow-up chains
\* while the mutex is still held; the mutex is released after the last one.
PushChain(w) ==
  /\ worker_pc[w] = "push"
  /\ LET next == Head(chains_to_queue[w])
     IN IF PushAllowed(job_queue_)
        THEN /\ job_queue_' = Push(job_queue_, next)
             /\ pushed' = [pushed EXCEPT ![next] = IF @ < 2 THEN @ + 1 ELSE @]
             /\ chains_to_queue' = [chains_to_queue EXCEPT ![w] = Tail(@)]
             /\ IF Tail(chains_to_queue[w]) = << >>
                THEN /\ worker_pc' = [worker_pc EXCEPT ![w] = "pop"]
                     /\ remaining_ops_mutex_' = 0
                ELSE UNCHANGED << worker_pc, remaining_ops_mutex_ >>
             /\ UNCHANGED fatal
        ELSE /\ fatal' = "Cannot push to a closed queue."
             /\ UNCHANGED << job_queue_, pushed, chains_to_queue, worker_pc,
                             remaining_ops_mutex_ >>
  /\ UNCHANGED << gvars, waited, runtime_parent_count_, remaining_ops_, success_,
                  eventRecorded_, workers_, run_in_progress_, cvars, idx,
                  chain_pos, this_success, book_children, calls, obsStart, obsStop, executed,
                  chainResult, finished, returned, prev_returned, overlapped, run_result >>

\* ---------------------------------------------------------- specification
WorkerStep(w) ==
  \/ Pop(w)
  \/ RunAtOp(w)
  \/ AsyncRunAtWait(w)
  \/ AsyncRunAtOp(w)
  \/ AsyncRunAtRecord(w)
  \/ Decrement(w)
  \/ Notify(w)
  \/ PushChain(w)

\* A failed enforce in a worker thread terminates the process: nothing runs
\* afterwards.
Alive == fatal = ""

Next ==
  \/ \E c \in Callers : Alive /\ Run(c)
  \/ \E c \in Callers : Alive /\ StartAllObservers(c)
  \/ \E c \in Callers : Alive /\ LockRun(c)
  \/ \E c \in Callers : Alive /\ Setup(c)
  \/ \E c \in Callers : Alive /\ Seed(c)
  \/ \E c \in Callers : Alive /\ CheckWait(c)
  \/ \E c \in Callers : Alive /\ JoinWorkers(c)
  \/ \E c \in Callers : Alive /\ ReturnSuccess(c)
  \/ \E c \in Callers : Alive /\ FinishTails(c)
  \/ \E w \in Workers : Alive /\ Pop(w)
  \/ \E w \in Workers : Alive /\ RunAtOp(w)
  \/ \E w \in Workers : Alive /\ AsyncRunAtWait(w)
  \/ \E w \in Workers : Alive /\ AsyncRunAtOp(w)
  \/ \E w \in Workers : Alive /\ AsyncRunAtRecord(w)
  \/ \E w \in Workers : Alive /\ Decrement(w)
  \/ \E w \in Workers : Alive /\ Notify(w)
  \/ \E w \in Workers : Alive /\ PushChain(w)

Spec == Init /\ [][Next]_vars

\* The steps of a call once it was made (making the call is the caller's
\* choice).
CallerProgress(c) ==
  \/ StartAllObservers(c)
  \/ LockRun(c)
  \/ Setup(c)
  \/ Seed(c)
  \/ CheckWait(c)
  \/ JoinWorkers(c)
  \/ ReturnSuccess(c)
  \/ FinishTails(c)

\* Fair scheduling of the threads: a worker or a caller inside Run() that can
\* take a step eventually takes one.
LiveSpec ==
  /\ Spec
  /\ \A w \in Workers : WF_vars(Alive /\ WorkerStep(w))
  /\ \A c \in Callers : WF_vars(Alive /\ CallerProgress(c))

\* ------------------------------------------------------------ destruction
\* No Run() call is in progress.
BetweenRuns == \A c \in Callers : caller_pc[c] = "idle"

\* DAGNetBase::~DAGNetBase, the threads the destructor joins: all of workers_.
WorkersToJoin == workers_

\* DAGNetBase::~DAGNetBase, entry: with a job queue, NoMoreJobs() and go on to
\* join the workers; without one there is nothing to do.
Destroy ==
  /\ destroyed = "no"
  /\ constructed = "yes"
  /\ BetweenRuns
  /\ IF job_queue_.present
     THEN /\ job_queue_' = NoMoreJobs(job_queue_)
          /\ destroyed' = "joining"
     ELSE /\ destroyed' = "done"
          /\ UNCHANGED job_queue_
  /\ UNCHANGED << net, chaining, async, opResult, parents_, children_,
                  is_chain_start_, execution_chains_, initial_frontier_,
                  num_workers_, num_workers_def, constructed, ovars,
                  runtime_parent_count_, remaining_ops_, success_,
                  eventRecorded_, workers_, run_in_progress_,
                  remaining_ops_mutex_, cvars, wvars, calls, obsStart,
                  obsStop, fatal, hvars >>

\* DAGNetBase::~DAGNetBase, the join loop: it ends once every thread of
\* workers_ has left WorkerFunction.
JoinAll ==
  /\ destroyed = "joining"
  /\ \A w \in WorkersToJoin : worker_pc[w] = "exited"
  /\ worker_pc' = [w \in Workers |->
                     IF w \in WorkersToJoin THEN "none" ELSE worker_pc[w]]
  /\ destroyed' = "done"
  /\ UNCHANGED << net, chaining, async, opResult, parents_, children_,
                  is_chain_start_, execution_chains_, initial_frontier_,
                  num_workers_, num_workers_def, constructed, ovars,
                  runtime_parent_count_, remaining_ops_, success_,
                  eventRecorded_, job_queue_, workers_, run_in_progress_,
                  remaining_ops_mutex_, cvars, idx, chain_pos, this_success,
                  book_children, chains_to_queue, waited, calls, obsStart,
                  obsStop, fatal, hvars >>

\* The net is used until its owner destroys it; the worker threads keep
\* running while the destructor waits for them.
LifecycleNext ==
  \/ destroyed = "no" /\ Next
  \/ \E w \in Workers : destroyed = "joining" /\ Alive /\ WorkerStep(w)
  \/ Alive /\ Destroy
  \/ Alive /\ JoinAll

LifecycleSpec == Init /\ [][LifecycleNext]_vars

\* The destructor's steps are taken once it was entered, and so are those of
\* the workers and of the calls in progress.
LifecycleLiveSpec ==
  /\ LifecycleSpec
  /\ \A w \in Workers : WF_vars(Alive /\ WorkerStep(w))
  /\ \A c \in Callers : WF_vars(destroyed = "no" /\ Alive /\ CallerProgress(c))
  /\ WF_vars(Alive /\ JoinAll)

\* -------------------------------------------------------------- observers
\* The most AttachObserver calls that add an observer.
MaxAttach == 4

\* Everything but the state of the Observable interface.
netvars == << net, chaining, async, opResult, parents_, children_,
              is_chain_start_, execution_chains_, initial_frontier_,
              num_workers_, num_workers_def, constructed, destroyed,
              runtime_parent_count_, remaining_ops_, success_,
              eventRecorded_, job_queue_, workers_, run_in_progress_,
              remaining_ops_mutex_, cvars, wvars, calls, obsStart, obsStop,
              fatal, hvars >>

\* Observable::NumObservers.
NumObservers == Len(observers_list_)

\* The observer is put in front of the list.
PushBackFront(list, p) == << p >> \o list

\* Observable::AttachObserver, observers_list_.push_back.
PushBack(list, p) == Append(list, p)

\* Observable::DetachObserver, the list without its first entry that holds
\* the pointer p.
EraseFirst(list, p) ==
  LET i == CHOOSE k \in 1..Len(list) :
             list[k] = p /\ \A j \in 1..(k - 1) : list[j] # p
  IN SubSeq(list, 1, i - 1) \o SubSeq(list, i + 1, Len(list))

\* Observable::AttachObserver. The argument is a unique_ptr: null, or an
\* observer its caller owns, which is then not one the list owns. A null
\* pointer fails the enforce; a pointer found in the list is returned without
\* a second entry; any other is appended and returned.
AttachObserver(p) ==
  /\ p = NullObserver \/ p \notin SeqRange(observers_list_)
  /\ IF p = NullObserver
     THEN /\ obs_call' = [op |-> "attach", arg |-> p, ret |-> NullObserver,
                          threw |-> TRUE]
          /\ UNCHANGED << observers_list_, attach_time, obs_clock >>
     ELSE IF p \in SeqRange(observers_list_)
     THEN /\ obs_call' = [op |-> "attach", arg |-> p, ret |-> p,
                          threw |-> FALSE]
          /\ UNCHANGED << observers_list_, attach_time, obs_clock >>
     ELSE /\ obs_clock < MaxAttach
          /\ observers_list_' = PushBack(observers_list_, p)
          /\ obs_clock' = obs_clock + 1
          /\ attach_time' = [attach_time EXCEPT ![p] = obs_clock + 1]
          /\ obs_call' = [op |-> "attach", arg |-> p, ret |-> p,
                          threw |-> FALSE]
  /\ UNCHANGED << notified, netvars >>

\* Observable::DetachObserver: the first entry that holds the pointer is
\* moved out, erased and returned; without one the result is null.
DetachObserver(p) ==
  /\ IF p \in SeqRange(observers_list_)
     THEN /\ observers_list_' = EraseFirst(observers_list_, p)
          /\ attach_time' = [attach_time EXCEPT ![p] = 0]
          /\ obs_call' = [op |-> "detach", arg |-> p, ret |-> p,
                          threw |-> FALSE]
     ELSE /\ obs_call' = [op |-> "detach", arg |-> p, ret |-> NullObserver,
                          threw |-> FALSE]
          /\ UNCHANGED << observers_list_, attach_time >>
  /\ UNCHANGED << obs_clock, notified, netvars >>

\* Observable::StartAllObservers: Start() on every entry, front to back.
ObservableStartAllObservers ==
  /\ notified' = observers_list_
  /\ obs_call' = [op |-> "start", arg |-> NullObserver, ret |-> NullObserver,
                  threw |-> FALSE]
  /\ UNCHANGED << observers_list_, attach_time, obs_clock, netvars >>

\* Observable::StopAllObservers: Stop() on every entry, front to back.
ObservableStopAllObservers ==
  /\ notified' = observers_list_
  /\ obs_call' = [op |-> "stop", arg |-> NullObserver, ret |-> NullObserver,
                  threw |-> FALSE]
  /\ UNCHANGED << observers_list_, attach_time, obs_clock, netvars >>

\* A net that is not run, with a client that attaches and detaches observers
\* and has them notified.
ObserverInit ==
  /\ Init
  /\ net = LinearNet
  /\ chaining
  /\ ~async
  /\ num_workers_def = NumWorkers(1)
  /\ \A n \in Nodes : opResult[n]

ObserverNext ==
  \/ \E p \in Observers \cup {NullObserver} : AttachObserver(p)
  \/ \E p \in Observers \cup {NullObserver} : DetachObserver(p)
  \/ ObservableStartAllObservers
  \/ ObservableStopAllObservers

ObserverSpec == ObserverInit /\ [][ObserverNext]_vars

\* ----------------------------------------------------------- construction
\* Blob names, one per operator of a generated net definition.
BlobNames == << "a", "b", "c", "d", "e", "f" >>

\* The net definitions of n operators in which operator i produces the blob
\* BlobNames[i] and consumes blobs of operators before it: one for every
\* dependency graph prepareOperatorNodes can build over n operators.
RECURSIVE GeneratedNetDefs(_)
GeneratedNetDefs(n) ==
  IF n = 0 THEN { << >> }
  ELSE { Append(nd, OpDef(ins, {BlobNames[n]})) :
           nd \in GeneratedNetDefs(n - 1),
           ins \in SUBSET { BlobNames[j] : j \in 1..(n - 1) } }

\* The state before DAGNetBase::DAGNetBase runs on a net definition: no field
\* of the net is computed yet.
ConstructInit ==
  /\ net \in UNION { GeneratedNetDefs(n) : n \in 1..MaxNodes }
  /\ chaining \in BOOLEAN
  /\ async \in BOOLEAN
  /\ opResult = [n \in NodesOf(net) |-> TRUE]
  /\ num_workers_def \in
       {NoNumWorkers} \cup { NumWorkers(k) : k \in (-1)..MaxWorkers }
  /\ constructed = "no"
  /\ parents_ = << >>
  /\ children_ = << >>
  /\ execution_chains_ = << >>
  /\ is_chain_start_ = << >>
  /\ initial_frontier_ = << >>
  /\ num_workers_ = 0
  /\ NoRunYet

\* DAGNetBase::DAGNetBase: build the operator nodes, the chains and the
\* initial frontier, then enforce a positive worker count; a failed enforce
\* throws and no net exists.
Construct ==
  /\ constructed = "no"
  /\ LET nodes == prepareOperatorNodes(net)
         chains == ExecutionChains(nodes, ~chaining)
         num_workers == NumWorkersOf(num_workers_def)
     IN IF PositiveWorkers(num_workers)
        THEN /\ constructed' = "yes"
             /\ parents_' = ParentsField(nodes)
             /\ children_' = ChildrenField(nodes)
             /\ execution_chains_' = chains
             /\ is_chain_start_' = ChainStartField(nodes, chains)
             /\ initial_frontier_' = InitialFrontier(nodes)
             /\ num_workers_' = num_workers
        ELSE /\ constructed' = "throw"
             /\ UNCHANGED << parents_, children_, execution_chains_,
                             is_chain_start_, initial_frontier_,
                             num_workers_ >>
  /\ UNCHANGED << net, chaining, async, opResult, num_workers_def, destroyed,
                  ovars, runtime_parent_count_, remaining_ops_, success_,
                  eventRecorded_, job_queue_, workers_, run_in_progress_,
                  remaining_ops_mutex_, cvars, wvars, calls, obsStart,
                  obsStop, fatal, hvars >>

ConstructNext == Construct

\* The construction of a net from any net definition of up to MaxNodes
\* operators.
ConstructSpec == ConstructInit /\ [][ConstructNext]_vars

\* --------------------------------------------------------- graph builder
\* The longest operator list given to the builder.
MaxOps == 3

\* Blob names the operators of a net definition share: a blob may be written
\* by several operators, read before it is written, or never written.
SharedBlobs == {"a", "b"}

\* Every net definition of n operators over the shared blob names.
SharedBlobNetDefs(n) ==
  [1..n -> { OpDef(ins, outs) :
               ins \in SUBSET SharedBlobs, outs \in SUBSET SharedBlobs }]

\* The state before DAGNetBase::DAGNetBase runs on an operator list whose
\* operators overwrite and reuse blobs.
BuilderInit ==
  /\ \E n \in 1..MaxOps : net \in SharedBlobNetDefs(n)
  /\ chaining = TRUE
  /\ async = FALSE
  /\ opResult = [n \in NodesOf(net) |-> TRUE]
  /\ num_workers_def = NoNumWorkers
  /\ constructed = "no"
  /\ parents_ = << >>
  /\ children_ = << >>
  /\ execution_chains_ = << >>
  /\ is_chain_start_ = << >>
  /\ initial_frontier_ = << >>
  /\ num_workers_ = 0
  /\ NoRunYet

\* The construction of a net from any operator list of up to MaxOps
\* operators over the shared blob names.
BuilderSpec == BuilderInit /\ [][ConstructNext]_vars

\* ------------------------------------------------------- cyclic graphs
\* The parents of node c when an input is matched to every other operator
\* that produces the blob, wherever it stands in the operator list.
ProducersOf(nd, c) ==
  { p \in NodesOf(nd) \ {c} : nd[c].input \cap nd[p].output # {} }

\* The operator nodes with these edges; for a definition in which every blob
\* is produced once and before it is consumed they are those of
\* prepareOperatorNodes.
OperatorNodesAnyProducer(nd) ==
  [n \in NodesOf(nd) |->
     [parents_ |-> ProducersOf(nd, n),
      children_ |-> { c \in NodesOf(nd) : n \in ProducersOf(nd, c) }]]

\* A -> B, B -> C, C -> B
CycleNet ==
  << OpDef({}, {"a"}), OpDef({"a", "c"}, {"b"}), OpDef({"b"}, {"c"}) >>

\* A -> B, B -> A: no node without parents
RootlessCycleNet == << OpDef({"b"}, {"a"}), OpDef({"a"}, {"b"}) >>

\* A -> B -> C, C -> D, D -> C
TailCycleNet ==
  << OpDef({}, {"a"}), OpDef({"a"}, {"b"}), OpDef({"b", "d"}, {"c"}),
     OpDef({"c"}, {"d"}) >>

CyclicNetDefs == {CycleNet, RootlessCycleNet, TailCycleNet}

\* The state after construction from the linear net or from a net whose
\* dependency graph has a cycle.
CycleInit ==
  InitWith([nd \in {LinearNet} \cup CyclicNetDefs |->
              OperatorNodesAnyProducer(nd)])

CycleSpec == CycleInit /\ [][Next]_vars

\* ----------------------------------------------------------------- claims
RECURSIVE Ancestors(_)
Ancestors(n) == parents_[n] \cup UNION { Ancestors(p) : p \in parents_[n] }

\* The operator of node m reported failure in the current run.
Failed(m) == executed[m] > 0 /\ ~opResult[m]

\* Worker w is inside RunAt for the chain idx[w].
Executing(w) == worker_pc[w] \in {"wait_parents", "run", "record"}

\* Caller c is inside DoRunAsync and holds the run lock.
InRun(c) == caller_pc[c] \in {"setup", "seed", "wait", "cv_wait", "after_wait"}

ChainTails == { ChainTail(s) : s \in ChainStarts }

\* C1: if the operator of node N reports failure, the run does not return
\* success and no node of another chain that transitively depends on N is
\* executed in that run.
FailurePropagates ==
  /\ returned = "success" => \A m \in Nodes : ~Failed(m)
  /\ \A n \in Nodes :
       executed[n] > 0 =>
         \A m \in Ancestors(n) : ChainOf(m) # ChainOf(n) => ~Failed(m)

\* C2: while a chain is being executed, and once one of its operators has
\* run, the chain of every parent of the chain's first node has returned
\* from RunAt in this run.
DependencyOrdering ==
  /\ \A w \in Workers :
       Executing(w) =>
         \A p \in parents_[Head(execution_chains_[idx[w]])] :
           chainResult[ChainOf(p)] # "none"
  /\ \A n \in Nodes :
       executed[n] > 0 =>
         \A p \in parents_[ChainOf(n)] : chainResult[ChainOf(p)] # "none"

\* A worker executes node C of the diamond (the node with two parents).
DependencyOrderingWitness ==
  /\ net = DiamondNet
  /\ \E w \in Workers : worker_pc[w] = "run" /\ idx[w] = 3

\* C3: in one run no chain id is pushed more than once: an id a worker is
\* about to push is no root, was not pushed before and is held by no other
\* worker.
AtMostOneEnqueue ==
  /\ \A n \in Nodes : pushed[n] <= 1
  /\ \A w \in Workers : \A i \in 1..Len(chains_to_queue[w]) :
       LET id == chains_to_queue[w][i]
       IN /\ parents_[id] # {}
          /\ pushed[id] = 0
          /\ \A v \in Workers \ {w} : id \notin SeqRange(chains_to_queue[v])
          /\ \A j \in 1..Len(chains_to_queue[w]) : chains_to_queue[w][j] = id => j = i

\* The chain of a node with two parents was pushed by a worker, the roots by
\* the coordinator.
AtMostOneEnqueueWitness ==
  /\ net = DiamondNet
  /\ pushed[1] = 1 /\ pushed[2] = 1 /\ pushed[3] = 1

\* The result of a finished run against the results of its chains.
RunResultInv ==
  /\ returned = "success" =>
       /\ \A s \in ChainStarts : chainResult[s] = "ok"
       /\ \A n \in Nodes : executed[n] > 0
  /\ returned = "failure" => \E s \in ChainStarts : chainResult[s] = "fail"
  /\ (\A n \in Nodes : opResult[n]) => returned \in {"none", "success"}

\* success_ goes from false to true only in the reset at the start of a run.
StickySuccess ==
  (~success_ /\ success_') =>
     \E c \in Callers : caller_pc[c] = "setup" /\ caller_pc'[c] = "seed"

\* C4: Run() returns success exactly when every chain executed in the run
\* returned success from RunAt (then every node was executed), and success_,
\* once false, stays false until the next run resets it.
RunResult == [] RunResultInv /\ [][StickySuccess]_vars

\* A failed run in which another chain succeeded.
RunResultWitness ==
  /\ returned = "failure"
  /\ \E s \in ChainStarts : chainResult[s] = "ok"
  /\ \E s \in ChainStarts : chainResult[s] = "fail"

\* C5: in one run every node is executed at most once, no two workers are
\* inside RunAt for the same chain, and after a successful run every node was
\* executed exactly once.
SingleExecution ==
  /\ \A n \in Nodes : executed[n] <= 1
  /\ \A w1, w2 \in Workers :
       (w1 # w2 /\ Executing(w1) /\ Executing(w2)) => idx[w1] # idx[w2]
  /\ returned = "success" => \A n \in Nodes : executed[n] = 1

\* Two workers execute chains at the same time.
SingleExecutionWitness ==
  \E w1, w2 \in Workers : w1 # w2 /\ worker_pc[w1] = "run" /\ worker_pc[w2] = "run"

\* C6: when the coordinator has left the wait loop with remaining_ops_ = 0
\* and success_ true, every runtime parent count is 0, and the enforce
\* before the successful return never throws.
CompletionParentCounts ==
  /\ \A c \in Callers :
       (caller_pc[c] = "after_wait" /\ remaining_ops_ = 0 /\ success_) =>
         \A n \in Nodes : runtime_parent_count_[n] = 0
  /\ returned # "throw_parents_left"

\* The coordinator is about to return success for a net with a chain of
\* several nodes.
CompletionParentCountsWitness ==
  /\ \E c \in Callers : caller_pc[c] = "after_wait" /\ remaining_ops_ = 0 /\ success_
  /\ \E s \in ChainStarts : Len(execution_chains_[s]) > 1

\* C7: when AsyncDAGNet::Run() returns success, eventRecorded_ is true for
\* the last node of every chain and the caller has called Finish() on the
\* event of every chain tail.
CompletionSignals ==
  [][ \A c \in Callers :
        (caller_pc[c] = "finish" /\ caller_pc'[c] = "idle" /\ result[c] = "success") =>
          /\ \A t \in ChainTails : eventRecorded_'[t]
          /\ finished'[c] = ChainTails ]_vars

\* C8: at most one caller is inside DoRunAsync between taking the run lock
\* and returning, it owns run_in_progress_, and the run-scoped counters are
\* reset only by it.
RunMutualExclusion ==
  /\ \A c1, c2 \in Callers : (InRun(c1) /\ InRun(c2)) => c1 = c2
  /\ \A c \in Callers : InRun(c) <=> run_in_progress_ = c

\* One caller waits for the run lock while the other is inside its run.
RunMutualExclusionWitness ==
  \E c1, c2 \in Callers :
    c1 # c2 /\ caller_pc[c1] = "cv_wait" /\ caller_pc[c2] = "lock"

\* C9: while a run holds the run lock, no eventRecorded_ flag is cleared (the
\* flags are cleared only by a Run() call, and the owner's own reset precedes
\* its lock).
RunOwnsEventRecorded ==
  [][ run_in_progress_ # NoCaller =>
        \A n \in Nodes : eventRecorded_[n] => eventRecorded_'[n] ]_vars

\* C10: under fair scheduling every Run() call eventually returns.
Termination ==
  \A c \in Callers : (caller_pc[c] # "idle") ~> (caller_pc[c] = "idle")

\* The operators return in the current run what they returned in the run
\* before it (the inputs were not fixed in between).
SameOutcomes == ~(prev_returned = "failure" /\ \A n \in Nodes : opResult[n])

\* The run-scoped counters right after the reset of a run.
CountersReset ==
  /\ remaining_ops_' = Len(net)
  /\ success_'
  /\ \A n \in Nodes : runtime_parent_count_'[n] = Cardinality(parents_[n])

\* Caller c makes the step that resets the run-scoped state.
SetupStep(c) == caller_pc[c] = "setup" /\ caller_pc'[c] # "setup"

FailureTeardown ==
  returned = "failure" =>
    /\ workers_ = {}
    /\ ~job_queue_.present
    /\ \A w \in Workers : worker_pc[w] = "none"

\* A run of several workers returned failure after one of its chains had
\* succeeded.
FailureTeardownWitness ==
  /\ returned = "failure"
  /\ num_workers_ > 1
  /\ \E s \in ChainStarts : chainResult[s] = "ok"

\* C13: the Run() that follows a Run() that returned failure creates a fresh
\* job queue, starts exactly num_workers_ workers and resets the run-scoped
\* counters, and when every operator now returns true it returns success
\* with every node executed once.
RerunAfterFailure ==
  /\ [] ((prev_returned = "failure" /\ returned # "none"
            /\ \A n \in Nodes : opResult[n]) =>
           (returned = "success" /\ \A n \in Nodes : executed[n] = 1))
  /\ [][ \A c \in Callers :
          (SetupStep(c) /\ returned = "failure") =>
            /\ job_queue_' = NewQueue
            /\ Cardinality(workers_' \ workers_) = num_workers_
            /\ Cardinality(workers_') = num_workers_
            /\ \A w \in workers_' : worker_pc'[w] = "pop"
            /\ CountersReset ]_vars

\* A run that followed a failed run returned success.
RerunAfterFailureWitness == prev_returned = "failure" /\ returned = "success"

\* C14: in the linear net A -> B -> C, when B's operator returns false the
\* run does not return success and C's run entry point is not invoked in it.
LinearFailure ==
  (net = LinearNet /\ ~opResult[2]) =>
    (executed[3] = 0 /\ returned # "success")

\* The chains a node is a member of, by their keys.
ChainsWith(n) == { s \in ChainStarts : n \in SeqRange(execution_chains_[s]) }

\* C15: after construction, with single chains and with computed chains,
\* every node is a member of exactly one chain and occurs once in it, and
\* every chain is keyed by its first node.
PartitionValidity ==
  constructed = "yes" =>
    /\ \A n \in Nodes : Cardinality(ChainsWith(n)) = 1
    /\ \A s \in ChainStarts :
         /\ execution_chains_[s][1] = s
         /\ Cardinality(SeqRange(execution_chains_[s])) =
              Len(execution_chains_[s])
         /\ SeqRange(execution_chains_[s]) \subseteq Nodes

\* Computed chains that partition a net into several chains, one of them
\* with several nodes.
PartitionValidityWitness ==
  /\ constructed = "yes"
  /\ chaining
  /\ Cardinality(ChainStarts) > 1
  /\ \E s \in ChainStarts : Len(execution_chains_[s]) > 1

\* C16: in every chain the only parent of a node but the first is the node
\* before it in the chain, and the only child of a node but the last is the
\* node after it.
NoInternalBranching ==
  constructed = "yes" =>
    \A s \in ChainStarts :
      LET chain == execution_chains_[s]
      IN /\ \A i \in 2..Len(chain) : parents_[chain[i]] = {chain[i - 1]}
         /\ \A i \in 1..(Len(chain) - 1) :
              children_[chain[i]] = {chain[i + 1]}

\* A computed chain of several nodes whose first node has several parents,
\* all of them outside the chain.
NoInternalBranchingWitness ==
  /\ constructed = "yes"
  /\ chaining
  /\ \E s \in ChainStarts :
       Len(execution_chains_[s]) > 1 /\ Cardinality(parents_[s]) > 1

\* C17: with computed chains no chain ends in a node whose single child has
\* that node as its single parent and starts another chain; the linear net
\* A -> B -> C yields the one chain [A, B, C].
ChainMaximality ==
  (constructed = "yes" /\ chaining) =>
    /\ \A s, t \in ChainStarts :
         ~(children_[ChainTail(s)] = {t} /\ parents_[t] = {ChainTail(s)})
    /\ net = LinearNet =>
         (ChainStarts = {1} /\ execution_chains_[1] = << 1, 2, 3 >>)

\* The linear net was constructed with computed chains.
ChainMaximalityWitness ==
  constructed = "yes" /\ chaining /\ net = LinearNet

\* C18: with chaining disabled every node is the only member of its own
\* chain and starts it, so there are as many chains as nodes; the chains of
\* the diamond are [A], [B], [C], [D].
SingleChainMode ==
  (constructed = "yes" /\ ~chaining) =>
    /\ \A n \in Nodes : execution_chains_[n] = << n >> /\ is_chain_start_[n]
    /\ Cardinality(ChainStarts) = Len(net)
    /\ net = DiamondNet =>
         execution_chains_ = << << 1 >>, << 2 >>, << 3 >>, << 4 >> >>

\* The diamond was constructed with chaining disabled.
SingleChainModeWitness ==
  constructed = "yes" /\ ~chaining /\ net = DiamondNet

RECURSIVE AncestorsWithin(_, _)
AncestorsWithin(S, k) ==
  IF k = 0 THEN S
  ELSE AncestorsWithin(S \cup UNION { parents_[m] : m \in S }, k - 1)

\* Node n is on a cycle of the dependency graph.
OnCycle(n) == n \in AncestorsWithin(parents_[n], Len(net))

\* A run has reset the run-scoped state.
RunStarted ==
  \E c \in Callers : caller_pc[c] \in {"seed", "wait", "cv_wait", "after_wait"}

\* C20: when the dependency graph has a cycle and no operator fails, in a
\* run the count of a node on the cycle stays above 0 and the node is not
\* executed, remaining_ops_ stays above 0, and Run() does not return: the
\* caller never leaves the wait loop and no run ever ends with success.
CycleDeadlock ==
  ((\E n \in Nodes : OnCycle(n)) /\ (\A n \in Nodes : opResult[n])) =>
    /\ returned = "none"
    /\ obsStop = 0
    /\ \A c \in Callers : caller_pc[c] # "after_wait"
    /\ RunStarted =>
         /\ remaining_ops_ > 0
         /\ \A n \in Nodes :
              OnCycle(n) => (runtime_parent_count_[n] > 0 /\ executed[n] = 0)

\* A run on a net with a cycle has executed the nodes before the cycle and
\* is stuck: the caller waits, the queue is empty, every worker is in Pop.
CycleDeadlockWitness ==
  /\ \E n \in Nodes : OnCycle(n)
  /\ \A n \in Nodes : opResult[n]
  /\ \E n \in Nodes : executed[n] = 1
  /\ \E c \in Callers : caller_pc[c] = "cv_wait"
  /\ job_queue_.items = << >>
  /\ workers_ # {}
  /\ \A w \in workers_ : worker_pc[w] = "pop"

\* The operators before c that write blob b.
EarlierProducers(b, c) == { p \in 1..(c - 1) : b \in net[p].output }

StopsAtFirstFailure(s) ==
  LET chain == execution_chains_[s]
  IN \A i, j \in 1..Len(chain) :
       (i < j /\ executed[chain[j]] > 0) => opResult[chain[i]]

\* C22: in the asynchronous variant no member of a chain has its RunAsync
\* invoked after an earlier member of the chain reported failure.
AsyncShortCircuit ==
  async => \A s \in ChainStarts : StopsAtFirstFailure(s)

\* C23: in the synchronous variant a chain's members run in chain order, no
\* member runs after an earlier one failed, a worker inside RunAt has seen
\* every earlier member succeed, and RunAt returns true exactly when every
\* member ran and returned true.
SyncShortCircuit ==
  ~async =>
    /\ \A s \in ChainStarts :
         LET chain == execution_chains_[s]
         IN /\ StopsAtFirstFailure(s)
            /\ \A i, j \in 1..Len(chain) :
                 (i < j /\ executed[chain[j]] > 0) => executed[chain[i]] > 0
            /\ chainResult[s] = "ok" <=>
                 \A i \in 1..Len(chain) :
                   executed[chain[i]] > 0 /\ opResult[chain[i]]
            /\ chainResult[s] = "fail" <=>
                 \E i \in 1..Len(chain) :
                   executed[chain[i]] > 0 /\ ~opResult[chain[i]]
    /\ \A w \in Workers :
         worker_pc[w] = "run" =>
           \A i \in 1..(chain_pos[w] - 1) :
             opResult[execution_chains_[idx[w]][i]]

\* A synchronous chain of three returned false at its second member and its
\* third member was not run.
SyncShortCircuitWitness ==
  /\ ~async
  /\ \E s \in ChainStarts :
       LET chain == execution_chains_[s]
       IN /\ Len(chain) = 3
          /\ chainResult[s] = "fail"
          /\ ~opResult[chain[2]]
          /\ executed[chain[1]] = 1
          /\ executed[chain[3]] = 0

\* C24: in the asynchronous variant the sink of a chain that returned failure
\* has no recorded completion signal.
RecordOnlyOnSuccess ==
  async =>
    \A s \in ChainStarts :
      chainResult[s] = "fail" => ~eventRecorded_[ChainTail(s)]

\* C25: in the asynchronous variant a worker that has not finished the Wait
\* loop has invoked no member of its chain; a worker running or recording has
\* waited on every parent of the chain's first node, and on none when there
\* is none; members run in chain order; and the sink is recorded, and the
\* chain returns, only after every member's RunAsync.
AsyncWaitRunRecord ==
  async =>
    /\ \A w \in Workers :
         LET chain == execution_chains_[idx[w]]
         IN /\ worker_pc[w] = "wait_parents" =>
                 /\ waited[w] = {}
                 /\ \A i \in 1..Len(chain) : executed[chain[i]] = 0
            /\ worker_pc[w] = "run" =>
                 /\ waited[w] = parents_[Head(chain)]
                 /\ \A i \in 1..Len(chain) :
                      executed[chain[i]] > 0 <=> i < chain_pos[w]
            /\ worker_pc[w] = "record" =>
                 /\ waited[w] = parents_[Head(chain)]
                 /\ \A i \in 1..Len(chain) : executed[chain[i]] > 0
            /\ worker_pc[w] \in {"wait_parents", "run", "record"} =>
                 chainResult[idx[w]] = "none"
    /\ \A s \in ChainStarts :
         chainResult[s] # "none" =>
           \A i \in 1..Len(execution_chains_[s]) :
             executed[execution_chains_[s][i]] > 0

\* A worker is about to record the sink of a chain of two whose first node
\* has two parents, after waiting on both and running both members.
AsyncWaitRunRecordWitness ==
  /\ async
  /\ \E w \in Workers :
       /\ worker_pc[w] = "record"
       /\ Len(execution_chains_[idx[w]]) = 2
       /\ Cardinality(waited[w]) = 2
       /\ waited[w] = parents_[idx[w]]

\* Worker w is between a decrement that made a chain ready and its decision,
\* under the mutex, to push that chain or not.
HoldsReadyChild(w) ==
  worker_pc[w] \in {"book", "notify"} /\ chains_to_queue[w] # << >>

\* C26: while a worker is between its decrement of a child to zero and its
\* push of that child, or its decision not to push, no other thread changes
\* success_ or closes the job queue.
DecrementEnqueueAtomic ==
  [][ \A w \in Workers :
        (HoldsReadyChild(w) /\ worker_pc'[w] = worker_pc[w]) =>
          /\ success_' = success_
          /\ job_queue_'.no_more_jobs = job_queue_.no_more_jobs ]_vars

\* The step is taken by a worker inside the block that holds
\* remaining_ops_mutex_: the update of remaining_ops_ and success_, or a push
\* of a follow-up chain.
MutexStep ==
  \E w \in Workers :
    \/ /\ worker_pc[w] = "notify"
       /\ remaining_ops_mutex_ = 0
       /\ worker_pc'[w] # "notify" \/ fatal' # fatal
    \/ /\ worker_pc[w] = "push"
       /\ remaining_ops_mutex_ = w
       /\ chains_to_queue'[w] # chains_to_queue[w] \/ fatal' # fatal

\* C27: every step that changes the job queue, remaining_ops_, success_ or a
\* runtime_parent_count_ is taken inside the block that holds
\* remaining_ops_mutex_.
SingleMutexPolicy ==
  [][ (\/ job_queue_' # job_queue_
       \/ remaining_ops_' # remaining_ops_
       \/ success_' # success_
       \/ runtime_parent_count_' # runtime_parent_count_) => MutexStep ]_vars

\* C28: a worker that queues follow-up chains holds remaining_ops_mutex_, has
\* seen success_ true, and finds the queue open: no worker's push ever meets
\* a closed queue. The queue is closed by a worker only in the block under the
\* mutex, so while some worker is pushing no worker closes it.
NoPushToClosedQueue ==
  /\ fatal # "Cannot push to a closed queue."
  /\ \A w \in Workers :
       worker_pc[w] = "push" =>
         /\ remaining_ops_mutex_ = w
         /\ success_
         /\ PushAllowed(job_queue_)

\* A worker is queuing a follow-up chain while another worker, whose chain
\* failed, is waiting for the mutex to record the failure and close the queue.
NoPushToClosedQueueWitness ==
  \E w, v \in Workers :
    /\ worker_pc[w] = "push"
    /\ worker_pc[v] = "notify"
    /\ ~this_success[v]

\* Worker w leaves the block under the mutex with success_ false: its own
\* chain failed or a failure was recorded before.
FailureSeen(w) ==
  /\ worker_pc[w] = "notify"
  /\ worker_pc'[w] # "notify"
  /\ ~success_'

\* Worker w takes a chain id from the job queue and starts on the chain.
StartsChain(w) ==
  worker_pc[w] = "pop" /\ worker_pc'[w] \in {"run", "wait_parents"}

\* A worker that sees the failure closes the queue and leaves its loop without
\* taking another chain.
ClosesAndExits ==
  \A w \in Workers :
    FailureSeen(w) => job_queue_'.no_more_jobs /\ worker_pc'[w] = "exited"

\* The close leaves a worker that is inside a chain where it is.
NotInterrupted ==
  \A w, v \in Workers :
    (FailureSeen(w) /\ v # w /\ Executing(v)) =>
      /\ worker_pc'[v] = worker_pc[v]
      /\ idx'[v] = idx[v]
      /\ chain_pos'[v] = chain_pos[v]

\* No worker starts on a chain once the queue is closed.
NoStartAfterClose ==
  \A w \in Workers : StartsChain(w) => ~job_queue_.no_more_jobs

BookkeepingDone ==
  { s \in ChainStarts :
      chainResult[s] # "none" /\ \A w \in Workers : idx[w] # s }

\* The total size of a set of chains.
RECURSIVE TotalSize(_)
TotalSize(S) ==
  IF S = {} THEN 0
  ELSE LET s == CHOOSE x \in S : TRUE
       IN Len(execution_chains_[s]) + TotalSize(S \ {s})

\* The run-scoped counters were reset by a run.
CountersSet == job_queue_.present \/ returned # "none"

\* C30: every runtime_parent_count_ lies between 0 and the node's number of
\* parents, remaining_ops_ lies between 0 and the number of nodes, neither
\* enforce on the counters fails, and from the reset of a run on
\* remaining_ops_ is the number of nodes less the sizes of the chains whose
\* bookkeeping is complete.
CounterBounds ==
  /\ \A n \in Nodes :
       /\ 0 <= runtime_parent_count_[n]
       /\ runtime_parent_count_[n] <= Cardinality(parents_[n])
  /\ 0 <= remaining_ops_
  /\ remaining_ops_ <= Len(net)
  /\ fatal # "Found runtime parent count smaller than zero"
  /\ fatal # "remaining_ops_ >= 0"
  /\ CountersSet => remaining_ops_ = Len(net) - TotalSize(BookkeepingDone)

\* In the middle of a run one chain is accounted for, another has returned
\* but its worker has not reached the mutex, and a node with two parents has
\* been counted down to zero.
CounterBoundsWitness ==
  /\ BookkeepingDone # {}
  /\ \E s \in ChainStarts \ BookkeepingDone : chainResult[s] # "none"
  /\ remaining_ops_ = Len(net) - TotalSize(BookkeepingDone)
  /\ remaining_ops_ > 0
  /\ \E n \in Nodes :
       Cardinality(parents_[n]) = 2 /\ runtime_parent_count_[n] = 0

\* C31: in the asynchronous variant the sink of a chain is not yet recorded
\* when its worker reaches the record step, so the enforce on it never fails,
\* and no node is recorded when a run performs its reset.
NoDoubleRecord ==
  /\ [](async =>
         /\ fatal # "An event should not be recorded."
         /\ \A w \in Workers :
              worker_pc[w] = "record" =>
                ~eventRecorded_[ChainTail(idx[w])])
  /\ [][ \A c \in Callers :
           (async /\ SetupStep(c)) => \A n \in Nodes : ~eventRecorded_[n] ]_vars

\* The nodes without parents.
Roots == { n \in Nodes : parents_[n] = {} }

Busy(w) ==
  worker_pc[w] \in {"wait_parents", "run", "record", "book", "notify", "push"}

\* C33: an operator is only ever run by a step of a worker thread, never by a
\* step of a thread inside Run(); and with a pool of one worker at most one
\* worker holds a chain, at most one operator has run since the worker took
\* its chain, and an operator that has run had every parent run before it.
SequentialDegradation ==
  /\ [][ (\E n \in Nodes : executed'[n] > executed[n]) =>
           /\ caller_pc' = caller_pc
           /\ \E w \in Workers : worker_pc[w] = "run" ]_vars
  /\ [](num_workers_ = 1 =>
          /\ Cardinality({ w \in Workers : Busy(w) }) <= 1
          /\ Cardinality(workers_) <= 1
          /\ \A n \in Nodes :
               executed[n] > 0 =>
                 \A p \in parents_[n] :
                   /\ executed[p] > 0
                   /\ \/ chainResult[ChainOf(p)] # "none"
                      \/ ChainOf(p) = ChainOf(n))

\* A pool of one worker has run the four operators of the diamond and the run
\* returned success.
SequentialDegradationWitness ==
  /\ num_workers_ = 1
  /\ net = DiamondNet
  /\ \A n \in Nodes : executed[n] = 1
  /\ returned = "success"

\* Caller c is between its StartAllObservers and the return of its run.
Notified(c) ==
  caller_pc[c] \in {"lock", "setup", "seed", "wait", "cv_wait", "after_wait"}

\* C34: StartAllObservers of a run comes before any operator of the run and
\* StopAllObservers after all of them, and either is invoked by the caller
\* that holds the run lock: observers are never notified of the start of one
\* run while another run is in flight.
ObserverBoundaries ==
  /\ [][ obsStart' # obsStart =>
           \E c \in Callers :
             /\ run_in_progress_ = c
             /\ caller_pc'[c] # caller_pc[c] ]_vars
  /\ [][ obsStop' # obsStop =>
           /\ \E c \in Callers :
                /\ run_in_progress_ = c
                /\ caller_pc'[c] # caller_pc[c]
           /\ \A n \in Nodes : executed[n] = 1
           /\ \A w \in Workers : ~Busy(w) ]_vars
  /\ [](\A c, d \in Callers : (c # d /\ InRun(c)) => caller_pc[d] # "lock")

\* Caller c returns from DoRunAsync in this step.
ReturnsFromRun(c) ==
  caller_pc[c] = "after_wait" /\ caller_pc'[c] # "after_wait"

\* C35: every Run() call has sent one Start notification once it is past
\* StartAllObservers; a run that returns failure sends no Stop notification,
\* a run that returns success sends one, and nothing else sends any: the
\* Start notifications count the runs and the Stop notifications the
\* successful ones.
UnbalancedObservers ==
  /\ [](obsStart =
          calls - Cardinality({ c \in Callers : caller_pc[c] = "observers" }))
  /\ [][ \A c \in Callers :
           ReturnsFromRun(c) =>
             /\ obsStart' = obsStart
             /\ returned' = "failure" => obsStop' = obsStop
             /\ returned' = "success" => obsStop' = obsStop + 1 ]_vars
  /\ [][ obsStop' # obsStop =>
           \E c \in Callers : ReturnsFromRun(c) /\ returned' = "success" ]_vars

\* A failed run and then a successful one: two Start notifications and one
\* Stop notification.
UnbalancedObserversWitness ==
  /\ prev_returned = "failure"
  /\ returned = "success"
  /\ \A c \in Callers : caller_pc[c] = "idle"
  /\ obsStart = 2
  /\ obsStop = 1

\* C36: in a run during which no other Run() call was made, a worker that
\* enters the asynchronous RunAt finds every parent of the chain's first node
\* to be the last node of its chain and to have recorded its event, and the
\* enforce that some parent is recorded does not fail.
AllParentsRecorded ==
  (async /\ ~overlapped) =>
    /\ fatal # "None of the parent is recorded for an event."
    /\ \A w \in Workers :
         worker_pc[w] = "wait_parents" =>
           \A p \in parents_[Head(execution_chains_[idx[w]])] :
             /\ p \in ChainTails
             /\ eventRecorded_[p]

\* In an undisturbed run a worker enters RunAt for the node of the diamond
\* that has two parents, one of which failed.
AllParentsRecordedWitness ==
  /\ async
  /\ ~overlapped
  /\ \E w \in Workers :
       /\ worker_pc[w] = "wait_parents"
       /\ Cardinality(parents_[idx[w]]) = 2
       /\ \E p \in parents_[idx[w]] : Failed(p)

\* C37: once Run() has returned success, and until the next run resets the
\* counters, the job queue exists, is open and empty, every one of the
\* num_workers_ workers is alive at Pop with no chain and nothing left to
\* push, and nobody holds remaining_ops_mutex_.
QuiescenceAfterSuccess ==
  returned = "success" =>
    /\ job_queue_.present
    /\ ~job_queue_.no_more_jobs
    /\ job_queue_.items = << >>
    /\ Cardinality(workers_) = num_workers_
    /\ \A w \in Workers :
         /\ worker_pc[w] = (IF w \in workers_ THEN "pop" ELSE "none")
         /\ idx[w] = 0
         /\ chains_to_queue[w] = << >>
         /\ book_children[w] = << >>
    /\ remaining_ops_mutex_ = 0
    /\ remaining_ops_ = 0

\* A run of two workers on the diamond returned success.
QuiescenceAfterSuccessWitness ==
  /\ returned = "success"
  /\ num_workers_ = 2
  /\ net = DiamondNet
  /\ \A n \in Nodes : executed[n] = 1

\* The pool between Run() calls: no worker and no queue, or num_workers_
\* workers and an open queue.
PoolShape ==
  \/ workers_ = {} /\ ~job_queue_.present
  \/ /\ Cardinality(workers_) = num_workers_
     /\ job_queue_.present
     /\ ~job_queue_.no_more_jobs

FinishAfterFailedRun ==
  /\ [][ \A c \in Callers :
           (caller_pc[c] # "finish" /\ caller_pc'[c] = "finish") =>
             /\ returned' \in {"success", "failure"}
             /\ result'[c] = returned' ]_vars
  /\ [][ \A c \in Callers :
           (caller_pc[c] = "finish" /\ caller_pc'[c] = "finish") =>
             result'[c] = result[c] ]_vars
  /\ [][ \A c \in Callers :
           (caller_pc[c] = "finish" /\ caller_pc'[c] # "finish") =>
             /\ \A s \in Nodes :
                  execution_chains_[s] # << >> =>
                    execution_chains_[s][Len(execution_chains_[s])]
                      \in finished'[c]
             /\ run_result'[c] = result[c] ]_vars
  /\ [][ \A c \in Callers :
           (async /\ run_result'[c] # run_result[c]
              /\ run_result'[c] # "none") =>
             caller_pc[c] = "finish" ]_vars

\* An AsyncDAGNet run has returned failure after it finished the event of a
\* chain's last node that did not run and recorded nothing in the run.
FinishAfterFailedRunWitness ==
  /\ async
  /\ BetweenRuns
  /\ returned = "failure"
  /\ \E c \in Callers :
       /\ run_result[c] = "failure"
       /\ \E t \in finished[c] : executed[t] = 0 /\ ~eventRecorded_[t]

\* The attached observers: those with an attach time.
Attached == { p \in Observers : attach_time[p] > 0 }

\* The sequence s lists each attached observer once, earlier attached first.
InAttachOrder(s, time) ==
  /\ SeqRange(s) = { p \in Observers : time[p] > 0 }
  /\ \A i, j \in 1..Len(s) : i < j => time[s[i]] < time[s[j]]

\* C40: AttachObserver of a non-null observer that is not in the list appends
\* it, makes NumObservers one larger and returns its pointer; a null observer
\* is rejected and the list stays as it is. DetachObserver of an attached
\* pointer removes that observer and no other and returns it; of a pointer
\* that is not in the list it returns null and leaves the list as it is.
\* Start/StopAllObservers call the attached observers in the order they were
\* attached.
ObserverAttachDetach ==
  /\ [][ obs_call'.op = "attach" =>
           LET p == obs_call'.arg
           IN IF p = NullObserver
              THEN obs_call'.threw /\ observers_list_' = observers_list_
              ELSE p \notin SeqRange(observers_list_) =>
                   /\ ~obs_call'.threw
                   /\ obs_call'.ret = p
                   /\ Len(observers_list_') = NumObservers + 1
                   /\ observers_list_'[NumObservers + 1] = p
                   /\ \A i \in 1..NumObservers :
                        observers_list_'[i] = observers_list_[i] ]_vars
  /\ [][ obs_call'.op = "detach" =>
           LET p == obs_call'.arg
           IN IF p \in SeqRange(observers_list_)
              THEN /\ obs_call'.ret = p
                   /\ Len(observers_list_') = NumObservers - 1
                   /\ observers_list_' =
                        SelectSeq(observers_list_, LAMBDA x : x # p)
              ELSE /\ obs_call'.ret = NullObserver
                   /\ observers_list_' = observers_list_ ]_vars
  /\ [][ obs_call'.op \in {"start", "stop"} =>
           /\ Len(notified') = Cardinality(Attached)
           /\ InAttachOrder(notified', attach_time)
           /\ observers_list_' = observers_list_ ]_vars

\* Every observer is attached, one of them for the second time after it was
\* detached, and Start or Stop has called them all, that one last.
ObserverAttachDetachWitness ==
  /\ obs_call.op \in {"start", "stop"}
  /\ Len(notified) = MaxObservers
  /\ obs_clock = MaxObservers + 1
  /\ \E p \in Observers : notified[MaxObservers] = p /\ attach_time[p] = MaxObservers + 1

====
